---- MODULE Spec2Model ----
(***************************************************************************)
(* A model of analysis.py: the recurrence evaluator, the generating-       *)
(* function term, the closed form rebuilt from roots and residues, and the *)
(* cross-validation harness main().                                        *)
(*                                                                         *)
(* Python integers are unbounded, and the sequence passes 2^31 at index    *)
(* 19, so an integer is carried as a sign and a magnitude, the magnitude a *)
(* sequence of 12-bit limbs (least significant first, no leading zero      *)
(* limb, <<>> for 0).  Floating-point values (Python floats, mpmath.mpf)   *)
(* are carried as sign, mantissa and binary exponent, and every operation  *)
(* on them rounds to nearest-even at the precision of its type: 53 bits    *)
(* for a Python float, 169 bits for mpmath at 50 digits.                   *)
(*                                                                         *)
(* Loops of the program are folded over their index range by halving the   *)
(* range, which keeps the evaluation shallow.                              *)
(*                                                                         *)
(* SpecCalls applies tiling_recurrence and tiling_gf_exact to arguments    *)
(* drawn in the initial state, SpecClosed does the same for exact_closed,  *)
(* and Spec is a run of main().                                            *)
(***************************************************************************)
EXTENDS Integers, Sequences, FiniteSets, Bags, TLC

LimbBits == 3 * 4
Base == 2^LimbBits

(***************************************************************************)
(* Magnitudes: unbounded natural numbers                                   *)
(***************************************************************************)
Limb(a, i) == IF i >= 1 /\ i <= Len(a) THEN a[i] ELSE 0

\* the sum of f[i] over DOMAIN f, for f[i] >= 0
Sum(f) == BagCardinality([i \in {j \in DOMAIN f : f[j] > 0} |-> f[i]])

\* drops the leading zero limbs
BTrim(a) ==
    LET nz == {i \in 1..Len(a) : a[i] # 0}
    IN  IF nz = {} THEN <<>>
        ELSE SubSeq(a, 1, CHOOSE i \in nz : \A k \in nz : k <= i)

\* whether adding a and b carries into limb i
BCarry(a, b, i) ==
    \E j \in 1..(i - 1) :
        /\ Limb(a, j) + Limb(b, j) >= Base
        /\ \A k \in (j + 1)..(i - 1) : Limb(a, k) + Limb(b, k) = Base - 1

BAdd(a, b) ==
    LET n == IF Len(a) > Len(b) THEN Len(a) ELSE Len(b)
    IN  BTrim([i \in 1..(n + 1) |->
            (Limb(a, i) + Limb(b, i) + (IF BCarry(a, b, i) THEN 1 ELSE 0)) % Base])

\* whether subtracting b from a borrows from limb i
BBorrow(a, b, i) ==
    \E j \in 1..(i - 1) :
        /\ Limb(a, j) < Limb(b, j)
        /\ \A k \in (j + 1)..(i - 1) : Limb(a, k) = Limb(b, k)

\* a - b for a >= b
BSub(a, b) ==
    BTrim([i \in 1..Len(a) |->
        (a[i] - Limb(b, i) - (IF BBorrow(a, b, i) THEN 1 ELSE 0) + Base) % Base])

\* -1, 0 or 1 as a < b, a = b, a > b
BCmp(a, b) ==
    IF Len(a) # Len(b) THEN (IF Len(a) > Len(b) THEN 1 ELSE -1)
    ELSE LET d == {i \in 1..Len(a) : a[i] # b[i]}
         IN  IF d = {} THEN 0
             ELSE LET t == CHOOSE i \in d : \A k \in d : k <= i
                  IN  IF a[t] > b[t] THEN 1 ELSE -1

\* a * Base^n
BShiftLimbs(a, n) == IF a = <<>> THEN a ELSE [i \in 1..n |-> 0] \o a

\* the number whose limb i is c[i], for c[i] in 0..2^31-1
BCarryAll(c) ==
    LET lo  == BTrim([i \in 1..Len(c) |-> c[i] % Base])
        mid == BTrim([i \in 1..Len(c) |-> (c[i] \div Base) % Base])
        hi  == BTrim([i \in 1..Len(c) |-> c[i] \div (Base * Base)])
    IN  BAdd(BAdd(lo, BShiftLimbs(mid, 1)), BShiftLimbs(hi, 2))

\* the magnitude of a machine-sized n >= 0
BOfInt(n) == BCarryAll(<<n>>)

\* a * k for 0 <= k < 2^19
BMulSmall(a, k) == BCarryAll([i \in 1..Len(a) |-> a[i] * k])

BMul(a, b) ==
    IF a = <<>> \/ b = <<>> THEN <<>>
    ELSE BCarryAll([k \in 1..(Len(a) + Len(b) - 1) |->
            Sum([i \in {j \in 1..Len(a) : k + 1 - j >= 1 /\ k + 1 - j <= Len(b)}
                    |-> a[i] * b[k + 1 - i]])])

\* the number of bits of a: 0 for 0
BitLen(a) ==
    IF a = <<>> THEN 0
    ELSE LimbBits * (Len(a) - 1)
         + (CHOOSE k \in 1..LimbBits : 2^(k - 1) <= a[Len(a)] /\ a[Len(a)] < 2^k)

\* a * 2^n
BShl(a, n) == BShiftLimbs(BMulSmall(a, 2^(n % LimbBits)), n \div LimbBits)

\* floor(a / 2^n)
BShr(a, n) ==
    LET q == n \div LimbBits
        r == n % LimbBits
    IN  BTrim([i \in 1..(Len(a) - q) |->
            (Limb(a, i + q) \div 2^r) + (Limb(a, i + q + 1) % 2^r) * 2^(LimbBits - r)])

BIsOdd(a) == a # <<>> /\ a[1] % 2 = 1

\* the machine-sized value of a < 2^31
BToInt(a) == Limb(a, 1) + Limb(a, 2) * Base + Limb(a, 3) * Base * Base

RECURSIVE QDigit(_, _, _, _)
\* the largest d in lo..hi with d * b <= cur
QDigit(cur, b, lo, hi) ==
    IF lo >= hi THEN lo
    ELSE IF BCmp(BMulSmall(b, (lo + hi + 1) \div 2), cur) <= 0
    THEN QDigit(cur, b, (lo + hi + 1) \div 2, hi)
    ELSE QDigit(cur, b, lo, (lo + hi + 1) \div 2 - 1)

Min(x, y) == IF x < y THEN x ELSE y
Max(x, y) == IF x > y THEN x ELSE y

\* floor(cur / b) for cur < b * Base: the leading bits of b (bh, b shifted
\* right by s) and of cur bracket the quotient limb to a few candidates
QLimb(cur, b, bh, s) ==
    LET ch == BToInt(BShr(cur, s))
    IN  QDigit(cur, b, ch \div (bh + 1), Min(Base - 1, (ch + 1) \div bh))

\* one step of long division: brings down a limb and finds the next quotient limb
DivBody(st, b, limb, bh, s) ==
    LET cur == BTrim(<<limb>> \o st.r)
        d   == QLimb(cur, b, bh, s)
    IN  [q |-> <<d>> \o st.q, r |-> BSub(cur, BMulSmall(b, d))]

RECURSIVE DivLoop(_, _, _, _, _, _, _)
\* long division over the limbs hi, hi - 1, ..., lo of a
DivLoop(st, a, b, hi, lo, bh, s) ==
    IF hi < lo THEN st
    ELSE IF hi = lo THEN DivBody(st, b, a[hi], bh, s)
    ELSE LET first == DivLoop(st, a, b, hi, (lo + hi) \div 2 + 1, bh, s)
         IN  IF Len(first.q) < Len(st.q) THEN first
             ELSE DivLoop(first, a, b, (lo + hi) \div 2, lo, bh, s)

\* floor(a / b) and a mod b, for b > 0: the top Len(b) - 1 limbs of a are
\* below b and start as the remainder
BDivMod(a, b) ==
    LET s    == Max(0, BitLen(b) - LimbBits - 3)
        bh   == BToInt(BShr(b, s))
        skip == Min(Len(a), Len(b) - 1)
        top  == SubSeq(a, Len(a) - skip + 1, Len(a))
        st   == DivLoop([q |-> <<>>, r |-> top], a, b, Len(a) - skip, 1, bh, s)
    IN  [q |-> BTrim(st.q), r |-> st.r]

RECURSIVE BGcd(_, _)
BGcd(a, b) == IF b = <<>> THEN a ELSE BGcd(b, BDivMod(a, b).r)

(***************************************************************************)
(* Python int: sign and magnitude                                          *)
(***************************************************************************)
ZMake(neg, mag) == [neg |-> neg /\ mag # <<>>, mag |-> mag]

\* the int of a machine-sized n
ZOfInt(n) == IF n < 0 THEN ZMake(TRUE, BOfInt(-n)) ELSE ZMake(FALSE, BOfInt(n))

ZNeg(x) == ZMake(~x.neg, x.mag)

ZAdd(x, y) ==
    IF x.neg = y.neg THEN ZMake(x.neg, BAdd(x.mag, y.mag))
    ELSE IF BCmp(x.mag, y.mag) >= 0 THEN ZMake(x.neg, BSub(x.mag, y.mag))
    ELSE ZMake(y.neg, BSub(y.mag, x.mag))

ZSub(x, y) == ZAdd(x, ZNeg(y))

ZMul(x, y) == ZMake(x.neg # y.neg, BMul(x.mag, y.mag))

\* k * x for a machine-sized k, |k| < 2^19
ZScale(k, x) ==
    IF k < 0 THEN ZMake(~x.neg, BMulSmall(x.mag, -k))
    ELSE ZMake(x.neg, BMulSmall(x.mag, k))

(***************************************************************************)
(* 1. Recurrence relation                                                  *)
(***************************************************************************)
\* the loop body with the sign of the a[i-3] term flipped
RecBodySignSlip(a, i) ==
    IF i = 0 THEN [a EXCEPT ![i + 1] = ZOfInt(1)]
    ELSE IF i = 1 THEN [a EXCEPT ![i + 1] = ZOfInt(2)]
    ELSE IF i = 2 THEN [a EXCEPT ![i + 1] = ZOfInt(7)]
    ELSE [a EXCEPT ![i + 1] = ZAdd(ZAdd(ZScale(3, a[i]), a[i - 1]), a[i - 2])]

\* one pass of the loop body: the Python a[i] is a[i + 1] here
RecBody(a, i) ==
    IF i = 0 THEN [a EXCEPT ![i + 1] = ZOfInt(1)]
    ELSE IF i = 1 THEN [a EXCEPT ![i + 1] = ZOfInt(2)]
    ELSE IF i = 2 THEN [a EXCEPT ![i + 1] = ZOfInt(7)]
    ELSE [a EXCEPT ![i + 1] = ZSub(ZAdd(ZScale(3, a[i]), a[i - 1]), a[i - 2])]

RECURSIVE RecLoop(_, _, _)
\* the loop body for i = lo, lo + 1, ..., hi; the test on the first half's
\* result has it evaluated before the second half starts
RecLoop(a, lo, hi) ==
    IF lo > hi THEN a
    ELSE IF lo = hi THEN RecBody(a, lo)
    ELSE LET left == RecLoop(a, lo, (lo + hi) \div 2)
         IN  IF Len(left) # Len(a) THEN left
             ELSE RecLoop(left, (lo + hi) \div 2 + 1, hi)

\* [0] * k: the empty list for k <= 0
ListOfZeros(k) == [i \in 1..k |-> ZOfInt(0)] \o <<>>

\* range(max_n + 1) is empty for max_n < 0: the loop does not run and the
\* empty list is returned
tiling_recurrence(max_n) ==
    [out |-> "return", val |-> RecLoop(ListOfZeros(max_n + 1), 0, max_n)]

(***************************************************************************)
(* sympy.Rational: numerator p and denominator q > 0 in lowest terms       *)
(***************************************************************************)
\* p / q for ints p and q > 0
RationalOf(p, q) ==
    LET g == BGcd(p.mag, q.mag)
    IN  [p |-> ZMake(p.neg, BDivMod(p.mag, g).q), q |-> ZMake(FALSE, BDivMod(q.mag, g).q)]

\* Rational(u, d) for a Rational u and an int d > 0
RationalOver(u, d) == RationalOf(u.p, ZMul(u.q, d))

\* int(u): the fraction is dropped, rounding toward zero
IntOfRational(u) == ZMake(u.p.neg, BDivMod(u.p.mag, u.q.mag).q)

RECURSIVE factorial(_)
factorial(n) == IF n <= 1 THEN ZOfInt(1) ELSE ZScale(n, factorial(n - 1))

RECURSIVE ZPow(_, _)
ZPow(x, n) == IF n = 0 THEN ZOfInt(1) ELSE ZMul(x, ZPow(x, n - 1))

(***************************************************************************)
(* Polynomials in x with int coefficients: p[k + 1] is the coefficient of  *)
(* x^k                                                                     *)
(***************************************************************************)
Coef(p, k) == IF k >= 0 /\ k < Len(p) THEN p[k + 1] ELSE ZOfInt(0)

PolyDiff(p) == [k \in 1..(Len(p) - 1) |-> ZScale(k, p[k + 1])] \o <<>>

PolySub(p, q) ==
    [k \in 1..Max(Len(p), Len(q)) |-> ZSub(Coef(p, k - 1), Coef(q, k - 1))] \o <<>>

PolyScale(c, p) == [k \in 1..Len(p) |-> ZScale(c, p[k])] \o <<>>

RECURSIVE PolyMulCoef(_, _, _, _)
\* the sum of p[k - j] * q[j] over j = from, ..., Len(q) - 1
PolyMulCoef(p, q, k, from) ==
    IF from >= Len(q) THEN ZOfInt(0)
    ELSE ZAdd(ZMul(Coef(p, k - from), q[from + 1]), PolyMulCoef(p, q, k, from + 1))

\* p * q, for a short q
PolyMul(p, q) ==
    IF p = <<>> \/ q = <<>> THEN <<>>
    ELSE [k \in 1..(Len(p) + Len(q) - 1) |-> PolyMulCoef(p, q, k - 1, 0)] \o <<>>

(***************************************************************************)
(* 3. Exact symbolic via generating function derivatives                   *)
(***************************************************************************)
\* 1 - x
GNumer == <<ZOfInt(1), ZOfInt(-1)>>

\* x^3 - x^2 - 3x + 1
GDenom == <<ZOfInt(1), ZOfInt(-3), ZOfInt(-1), ZOfInt(1)>>

\* G(x) = (1 - x) / (x^3 - x^2 - 3x + 1): an expression num / GDenom^pow
G == [num |-> GNumer, pow |-> 1]

\* the quotient rule with the exponent of the denominator left out
DiffOnceNoExponent(e) ==
    [num |-> PolySub(PolyMul(PolyDiff(e.num), GDenom),
                     PolyMul(e.num, PolyDiff(GDenom))),
     pow |-> e.pow + 1]

\* d/dx of num / GDenom^pow, by the quotient rule
DiffOnce(e) ==
    [num |-> PolySub(PolyMul(PolyDiff(e.num), GDenom),
                     PolyScale(e.pow, PolyMul(e.num, PolyDiff(GDenom)))),
     pow |-> e.pow + 1]

RECURSIVE diff(_, _)
\* diff(e, x, n): an empty numerator stays empty, and the test has each
\* derivative evaluated before the next
diff(e, n) ==
    IF n = 0 THEN e
    ELSE LET d == DiffOnce(e)
         IN  IF d.num = <<>> THEN d ELSE diff(d, n - 1)

\* e.subs(x, 0)
SubsZero(e) == RationalOf(Coef(e.num, 0), ZPow(Coef(GDenom, 0), e.pow))

\* Rational(value, factorial(n))
RationalTerm(value, n) == RationalOver(value, factorial(n))

tiling_gf_exact(n) ==
    [out |-> "return", val |-> RationalTerm(SubsZero(diff(G, n)), n)]

(***************************************************************************)
(* Binary floating point: (-1)^neg * man * 2^exp with man odd, or man =    *)
(* <<>> for 0.  A Python float keeps 53 bits of man, an mpmath.mpf the     *)
(* bits of the working precision.  The exponent is unbounded: no value of  *)
(* the program comes near the range limits of a Python float.              *)
(***************************************************************************)
FZero == [neg |-> FALSE, man |-> <<>>, exp |-> 0]

\* the number of trailing zero bits of a > 0
TrailingZeros(a) ==
    LET i == CHOOSE j \in 1..Len(a) : a[j] # 0 /\ \A k \in 1..(j - 1) : a[k] = 0
        b == CHOOSE c \in 0..(LimbBits - 1) :
                 a[i] % 2^(c + 1) # 0 /\ a[i] % 2^c = 0
    IN  LimbBits * (i - 1) + b

\* the same value with an odd mantissa
FNorm(f) ==
    IF f.man = <<>> THEN FZero
    ELSE [neg |-> f.neg,
          man |-> BShr(f.man, TrailingZeros(f.man)),
          exp |-> f.exp + TrailingZeros(f.man)]

\* floor(a / 2^n), plus one when the bits dropped are above a half, or are a
\* half and the floor is odd (round to nearest, ties to even)
BShrNearest(a, n) ==
    IF n <= 0 THEN BShl(a, -n)
    ELSE LET q == BShr(a, n)
             c == BCmp(BSub(a, BShl(q, n)), BShl(<<1>>, n - 1))
         IN  IF c > 0 \/ (c = 0 /\ BIsOdd(q)) THEN BAdd(q, <<1>>) ELSE q

\* f rounded to prec bits of mantissa
FRound(f, prec) ==
    IF BitLen(f.man) <= prec THEN FNorm(f)
    ELSE FNorm([neg |-> f.neg,
                man |-> BShrNearest(f.man, BitLen(f.man) - prec),
                exp |-> f.exp + BitLen(f.man) - prec])

\* the float of a machine-sized integer
FOfInt(n) == FNorm([neg |-> n < 0, man |-> BOfInt(IF n < 0 THEN -n ELSE n), exp |-> 0])

FNeg(f) == [neg |-> ~f.neg /\ f.man # <<>>, man |-> f.man, exp |-> f.exp]

FMul(a, b, prec) ==
    FRound([neg |-> a.neg # b.neg, man |-> BMul(a.man, b.man), exp |-> a.exp + b.exp],
           prec)

FAdd(a, b, prec) ==
    LET e == Min(a.exp, b.exp)
        z == ZAdd(ZMake(a.neg, BShl(a.man, a.exp - e)),
                  ZMake(b.neg, BShl(b.man, b.exp - e)))
    IN  FRound([neg |-> z.neg, man |-> z.mag, exp |-> e], prec)

FSub(a, b, prec) == FAdd(a, FNeg(b), prec)

\* a / b for b # 0: the quotient is taken to prec + 2 bits and one more bit
\* records whether anything is left over, which settles the rounding
FDiv(a, b, prec) ==
    IF a.man = <<>> THEN FZero
    ELSE LET s  == Max(0, prec + 2 + BitLen(b.man) - BitLen(a.man))
             qr == BDivMod(BShl(a.man, s), b.man)
         IN  FRound([neg |-> a.neg # b.neg,
                     man |-> BAdd(BShl(qr.q, 1), IF qr.r = <<>> THEN <<>> ELSE <<1>>),
                     exp |-> a.exp - b.exp - s - 1],
                    prec)

\* the nearest integer, ties to even
FNint(f) == ZMake(f.neg, BShrNearest(f.man, -f.exp))

\* the bits of a Python float
FloatPrec == 53

\* mpmath's bits for a precision of dps decimal digits:
\* round((dps + 1) * 3.3219280948873626)
DpsToPrec(dps) == ((dps + 1) * 33219 + 5000) \div 10000

(***************************************************************************)
(* 4. Exact closed-form with exact roots                                   *)
(***************************************************************************)
ZSign(z) == IF z.mag = <<>> THEN 0 ELSE IF z.neg THEN -1 ELSE 1

ZShl(z, n) == ZMake(z.neg, BShl(z.mag, n))

RECURSIVE HornerAt(_, _, _, _)
\* 2^(k * (j - 1)) times the value at c / 2^k of the polynomial whose
\* coefficients are p[j], ..., p[Len(p)]
HornerAt(p, c, k, j) ==
    IF j = Len(p) THEN p[j]
    ELSE ZAdd(ZMul(HornerAt(p, c, k, j + 1), c), ZShl(p[j], k * (Len(p) - j)))

\* the sign of p at c / 2^k, for an int c
PolySignAt(p, c, k) == ZSign(HornerAt(p, c, k, 1))

\* every real root of p lies within 1 + max |coefficient| of 0
RootBound(p) ==
    1 + (CHOOSE m \in {BToInt(p[j].mag) : j \in 1..Len(p)} :
            \A j \in 1..Len(p) : BToInt(p[j].mag) <= m)

\* the integers n with exactly one simple root of p in (n, n + 1)
RootCells(p) ==
    {n \in (-RootBound(p))..(RootBound(p) - 1) :
        PolySignAt(p, ZOfInt(n), 0) * PolySignAt(p, ZOfInt(n + 1), 0) < 0}

\* real_roots(denom_poly, x): the roots in increasing order, each named by
\* the integer cell that isolates it
exact_roots ==
    [i \in 1..Cardinality(RootCells(GDenom)) |->
        CHOOSE n \in RootCells(GDenom) :
            Cardinality({m \in RootCells(GDenom) : m < n}) = i - 1] \o <<>>

\* the end of the cell (n, n + 1) that is nearer to 0
InnerEnd(n) == IF n >= 0 THEN n ELSE n + 1

\* whether c / 2^k, of the sign of the cell, is no further from 0 than the
\* root in the cell (n, n + 1); c >= 0 is the magnitude
WithinRoot(n, c, k) ==
    LET lo == IF n >= 0 THEN n ELSE -n - 1
    IN  \/ BCmp(c, BShl(BOfInt(lo), k)) <= 0
        \/ /\ BCmp(c, BShl(BOfInt(lo + 1), k)) < 0
           /\ PolySignAt(GDenom, ZMake(n < 0, c), k)
                  \in {0, PolySignAt(GDenom, ZOfInt(InnerEnd(n)), 0)}

RECURSIVE RootDigit(_, _, _, _, _)
\* the largest d in lo..hi with (d + Base * high) / 2^k within the root
RootDigit(n, high, k, lo, hi) ==
    IF lo >= hi THEN lo
    ELSE IF WithinRoot(n, BTrim(<<(lo + hi + 1) \div 2>> \o high), k)
    THEN RootDigit(n, high, k, (lo + hi + 1) \div 2, hi)
    ELSE RootDigit(n, high, k, lo, (lo + hi + 1) \div 2 - 1)

RECURSIVE RootLimbs(_, _, _, _)
\* bisection, a limb at a time: floor(|root| * 2^(LimbBits * limbs)) given
\* high = floor(|root| * 2^(LimbBits * done)); the test has each limb
\* settled before the next is sought
RootLimbs(n, high, done, limbs) ==
    IF done >= limbs THEN high
    ELSE LET d == RootDigit(n, high, LimbBits * (done + 1), 0, Base - 1)
         IN  IF d >= Base THEN high
             ELSE RootLimbs(n, BTrim(<<d>> \o high), done + 1, limbs)

\* floor(|root| * 2^(LimbBits * limbs)) for the root in the cell (n, n + 1)
RootFloor(n, limbs) ==
    RootLimbs(n, BOfInt(IF n >= 0 THEN n ELSE -n - 1), 0, limbs)

\* r.evalf(dps): the root in the cell (n, n + 1) to the bits of dps digits;
\* the floor is taken a limb past the precision and one more bit records
\* that the root is not a binary fraction
RootEvalf(n, dps) ==
    LET limbs == DpsToPrec(dps) \div LimbBits + 2
        t     == RootFloor(n, limbs)
    IN  FRound([neg |-> n < 0,
                man |-> BAdd(BShl(t, 1),
                             IF PolySignAt(GDenom, ZMake(n < 0, t), LimbBits * limbs) = 0
                             THEN <<>> ELSE <<1>>),
                exp |-> -(LimbBits * limbs) - 1],
               DpsToPrec(dps))

\* complex(v).real: the Python float nearest to v
ToFloat(v) == FRound(v, FloatPrec)

\* complex(r.evalf(50)).real for each root, in the order of exact_roots
r_vals == [i \in 1..Len(exact_roots) |-> ToFloat(RootEvalf(exact_roots[i], 50))] \o <<>>

\* A = (1 - r) / (3r^2 - 2r - 3) in Python floats: every operation rounds
res_val(r_val) ==
    LET n_val == FSub(FOfInt(1), r_val, FloatPrec)
        d_val == FSub(FSub(FMul(FOfInt(3), FMul(r_val, r_val, FloatPrec), FloatPrec),
                           FMul(FOfInt(2), r_val, FloatPrec), FloatPrec),
                      FOfInt(3), FloatPrec)
    IN  FDiv(n_val, d_val, FloatPrec)

\* the list of (root, residue): the root by its place in exact_roots
residues == [i \in 1..Len(exact_roots) |-> [r |-> i, A |-> res_val(r_vals[i])]] \o <<>>

RECURSIVE BPow(_, _)
\* a^n exactly
BPow(a, n) ==
    IF n = 0 THEN <<1>>
    ELSE IF n % 2 = 1 THEN BMul(a, BPow(a, n - 1))
    ELSE BMul(BPow(a, n \div 2), BPow(a, n \div 2))

\* m * 2^e with the low bits of m beyond wp bits dropped
CutTo(m, e, wp) ==
    IF BitLen(m) > wp
    THEN [m |-> BShr(m, BitLen(m) - wp), e |-> e + BitLen(m) - wp]
    ELSE [m |-> m, e |-> e]

RECURSIVE PowLoop(_, _, _, _)
\* square and multiply: p is the product so far, b the current square,
\* each cut to wp bits
PowLoop(p, b, n, wp) ==
    LET p1 == IF n % 2 = 1 THEN CutTo(BMul(p.m, b.m), p.e + b.e, wp) ELSE p
    IN  IF n <= 1 \/ p1.m = <<>> THEN p1
        ELSE PowLoop(p1, CutTo(BMul(b.m, b.m), b.e + b.e, wp), n \div 2, wp)

\* mpmath.power(s, n) for an integer n >= 1, as mpmath's mpf_pow_int does it:
\* an exact power rounded once while it is short, else square and multiply
\* at a working precision of prec + 4 * bitcount(n) + 4 bits
MpfPowInt(s, n, prec) ==
    IF n = 1 THEN FRound(s, prec)
    ELSE IF BitLen(s.man) * n < 1000
    THEN FRound([neg |-> s.neg /\ n % 2 = 1, man |-> BPow(s.man, n), exp |-> s.exp * n],
                prec)
    ELSE LET p == PowLoop([m |-> <<1>>, e |-> 0], [m |-> s.man, e |-> s.exp], n,
                          prec + 4 * BitLen(BOfInt(n)) + 4)
         IN  FRound([neg |-> s.neg /\ n % 2 = 1, man |-> p.m, exp |-> p.e], prec)

RECURSIVE ClosedSum(_, _, _, _)
\* result += -mpf(A_val) / power(mpf(r_val), n + 1), for the residues from
\* the i-th on, at prec bits
ClosedSum(result, i, n, prec) ==
    IF i > Len(residues) THEN result
    ELSE ClosedSum(FAdd(result,
                        FDiv(FNeg(residues[i].A),
                             MpfPowInt(r_vals[residues[i].r], n + 1, prec),
                             prec),
                        prec),
                   i + 1, n, prec)

\* mpmath.mp.dps = 50
CLOSED_DPS == 50

\* int(mpmath.nint(result)) at the precision the call has just set
exact_closed(n) ==
    [out |-> "return",
     val |-> FNint(ClosedSum(FZero, 1, n, DpsToPrec(CLOSED_DPS)))]

\* gf_val = int(tiling_gf_exact(n)), for a derivative G^(n)(0) = value
gf_val_of(value, n) ==
    [out |-> "return",
     val |-> IntOfRational(RationalTerm(RationalOf(ZOfInt(value), ZOfInt(1)), n))]

\* MAX_N = 20
MAX_N == 20

\* the last index of the extended search: range(MAX_N + 1, 201)
HORIZON == 200

\* mpmath.mp.dps before anything has set it
MPMATH_DEFAULT_DPS == 15

\* breakdown_n = None
None == -1

MaxRecN == 40
MaxNegN == 3
MaxGfN == 20
MaxDerivValue == 6
MaxTermN == 3
MaxClosedN == 100
\* a larger setting of MAX_N, which main is also run at
WiderMaxN == 29

RECURSIVE Derivatives(_)
\* G and its first k derivatives, each differentiated from the one before
Derivatives(k) ==
    IF k = 0 THEN <<G>>
    ELSE LET ds == Derivatives(k - 1)
         IN  IF ds = <<>> THEN ds ELSE Append(ds, DiffOnce(ds[k]))

\* int(tiling_gf_exact(n)) for n = i - 1, i in 1..WiderMaxN + 1, computed once
gf_vals ==
    LET ds == Derivatives(WiderMaxN)
    IN  [i \in 1..(WiderMaxN + 1) |->
            IntOfRational(RationalTerm(SubsZero(ds[i]), i - 1))] \o <<>>

\* int(exact_closed(n)) for n = i - 1, i in 1..WiderMaxN + 1, computed once
exact_cf_vals == [i \in 1..(WiderMaxN + 1) |-> exact_closed(i - 1).val] \o <<>>

\* cur_n and rec_a are the n and the a of main, run_max_n its MAX_N
VARIABLES fn, arg, ret, mp_dps, pc, run_max_n, cur_n, rec_a, a_ext,
          breakdown_n, report, diag, first_wrong, compared, cf_evals

callVars == <<fn, arg, ret>>
mainVars == <<pc, run_max_n, cur_n, rec_a, a_ext, breakdown_n, report, diag>>
\* history: the least index whose comparison came out wrong, the indices
\* compared, and the evaluations of exact_closed at the current index
histVars == <<first_wrong, compared, cf_evals>>
vars == <<fn, arg, ret, mp_dps, pc, run_max_n, cur_n, rec_a, a_ext,
          breakdown_n, report, diag, first_wrong, compared, cf_evals>>

NoResult == [out |-> "pending", val |-> <<>>]
NoReport == [kind |-> "none", N |-> None]
NoDiag == [error |-> "none"]

\* main has not been entered
MainIdle ==
    /\ pc = "idle"
    /\ run_max_n = MAX_N
    /\ cur_n = 0
    /\ rec_a = <<>>
    /\ a_ext = <<>>
    /\ breakdown_n = None
    /\ report = NoReport
    /\ diag = NoDiag
    /\ first_wrong = None
    /\ compared = {}
    /\ cf_evals = 0

(***************************************************************************)
(* Calls of the functions: the arguments are drawn in the initial state    *)
(* and one action per function applies it                                  *)
(***************************************************************************)
InitCalls ==
    /\ \/ fn = "tiling_recurrence" /\ arg \in (-MaxNegN)..MaxRecN
       \/ fn = "tiling_gf_exact" /\ arg \in 0..MaxGfN
       \/ /\ fn = "gf_val_of"
          /\ arg \in ((-MaxDerivValue)..MaxDerivValue) \X (0..MaxTermN)
    /\ ret = NoResult
    /\ mp_dps = MPMATH_DEFAULT_DPS
    /\ MainIdle

CallRecurrence ==
    /\ fn = "tiling_recurrence"
    /\ ret.out = "pending"
    /\ ret' = tiling_recurrence(arg)
    /\ UNCHANGED <<fn, arg, mp_dps, mainVars, histVars>>

CallGfExact ==
    /\ fn = "tiling_gf_exact"
    /\ ret.out = "pending"
    /\ ret' = tiling_gf_exact(arg)
    /\ UNCHANGED <<fn, arg, mp_dps, mainVars, histVars>>

CallGfValOf ==
    /\ fn = "gf_val_of"
    /\ ret.out = "pending"
    /\ ret' = gf_val_of(arg[1], arg[2])
    /\ UNCHANGED <<fn, arg, mp_dps, mainVars, histVars>>

NextCalls == CallRecurrence \/ CallGfExact \/ CallGfValOf

SpecCalls == InitCalls /\ [][NextCalls]_vars

(***************************************************************************)
(* Calls of exact_closed: arg is <<n, mpmath.mp.dps when the call is made>> *)
(***************************************************************************)
EntryDps == {MPMATH_DEFAULT_DPS, CLOSED_DPS}

InitClosed ==
    /\ fn = "exact_closed"
    /\ arg \in (0..MaxClosedN) \X EntryDps
    /\ ret = NoResult
    /\ mp_dps = arg[2]
    /\ MainIdle

CallExactClosed ==
    /\ fn = "exact_closed"
    /\ ret.out = "pending"
    /\ mp_dps' = CLOSED_DPS
    /\ ret' = exact_closed(arg[1])
    /\ UNCHANGED <<fn, arg, mainVars, histVars>>

NextClosed == CallExactClosed

SpecClosed == InitClosed /\ [][NextClosed]_vars

(***************************************************************************)
(* main.  Whether round(tiling_approx(n)) differs from the recurrence term  *)
(* is an input of each comparison.  The statements after the first call of  *)
(* count_mn_tilings are never reached and have no action.                   *)
(***************************************************************************)
\* breakdown_n is never replaced once set
BreakdownLatest(found, wrong, i) == IF wrong THEN i ELSE found

\* if rounded_approx != rec_val and breakdown_n is None: breakdown_n = n
Breakdown(found, wrong, i) == IF wrong /\ found = None THEN i ELSE found

Mismatch(method, i, got, want) ==
    [error |-> "AssertionError", method |-> method, N |-> i,
     got |-> got, want |-> want]

\* only the generating-function value is asserted
AssertGfOnly(i, gf, cf, rec) ==
    IF gf # rec THEN Mismatch("GF", i, gf, rec) ELSE NoDiag

\* assert gf_val == rec_val, ...; assert exact_cf_val == rec_val, ...
AssertAgree(i, gf, cf, rec) ==
    IF gf # rec THEN Mismatch("GF", i, gf, rec)
    ELSE IF cf # rec THEN Mismatch("Exact CF", i, cf, rec)
    ELSE NoDiag

\* the least index whose comparison has come out wrong
LeastWrong(least, wrong, i) ==
    IF wrong /\ (least = None \/ i < least) THEN i ELSE least

Init ==
    /\ fn = "main"
    /\ arg = <<>>
    /\ ret = NoResult
    /\ mp_dps = MPMATH_DEFAULT_DPS
    /\ pc = "start"
    /\ run_max_n \in {MAX_N, WiderMaxN}
    /\ cur_n = 0
    /\ rec_a = <<>>
    /\ a_ext = <<>>
    /\ breakdown_n = None
    /\ report = NoReport
    /\ diag = NoDiag
    /\ first_wrong = None
    /\ compared = {}
    /\ cf_evals = 0

\* a = tiling_recurrence(MAX_N) ... breakdown_n = None
Start ==
    /\ pc = "start"
    /\ rec_a' = tiling_recurrence(run_max_n).val
    /\ breakdown_n' = None
    /\ cur_n' = 0
    /\ pc' = "validate"
    /\ UNCHANGED <<callVars, mp_dps, run_max_n, a_ext, report, diag, histVars>>

\* one pass of for n in range(MAX_N + 1): the three values, the comparison
\* of the rounded approximation, the two asserts
ValidateStep ==
    /\ pc = "validate"
    /\ mp_dps' = CLOSED_DPS
    /\ cf_evals' = 1
    /\ compared' = compared \cup {cur_n}
    /\ \E differs \in BOOLEAN :
          /\ breakdown_n' = Breakdown(breakdown_n, differs, cur_n)
          /\ first_wrong' = LeastWrong(first_wrong, differs, cur_n)
    /\ diag' = AssertAgree(cur_n, gf_vals[cur_n + 1], exact_cf_vals[cur_n + 1],
                           rec_a[cur_n + 1])
    /\ IF diag' # NoDiag
       THEN pc' = "AssertionError" /\ cur_n' = cur_n
       ELSE IF cur_n = run_max_n
       THEN pc' = "report" /\ cur_n' = cur_n
       ELSE pc' = "validate" /\ cur_n' = cur_n + 1
    /\ UNCHANGED <<callVars, run_max_n, rec_a, a_ext, report>>

\* if breakdown_n is not None and breakdown_n <= MAX_N: print ...
ReportBreakdown ==
    /\ pc = "report"
    /\ breakdown_n # None /\ breakdown_n <= run_max_n
    /\ report' = [kind |-> "found", N |-> breakdown_n]
    /\ pc' = "table"
    /\ UNCHANGED <<callVars, mp_dps, run_max_n, cur_n, rec_a, a_ext,
                   breakdown_n, diag, histVars>>

\* else: a_ext = tiling_recurrence(200), and the loop is entered
EnterExtension ==
    /\ pc = "report"
    /\ ~(breakdown_n # None /\ breakdown_n <= run_max_n)
    /\ a_ext' = tiling_recurrence(HORIZON).val
    /\ cur_n' = run_max_n + 1
    /\ pc' = "extend"
    /\ UNCHANGED <<callVars, mp_dps, run_max_n, rec_a, breakdown_n, report,
                   diag, histVars>>

\* one pass of for n in range(MAX_N + 1, 201), with its break and its else
ExtendStep ==
    /\ pc = "extend"
    /\ \E differs \in BOOLEAN :
          /\ first_wrong' = LeastWrong(first_wrong, differs, cur_n)
          /\ compared' = compared \cup {cur_n}
          /\ IF differs
             THEN /\ breakdown_n' = cur_n
                  /\ report' = [kind |-> "found", N |-> cur_n]
                  /\ pc' = "table"
                  /\ cur_n' = cur_n
             ELSE IF cur_n = HORIZON
             THEN /\ report' = [kind |-> "not found", N |-> None]
                  /\ pc' = "table"
                  /\ UNCHANGED <<breakdown_n, cur_n>>
             ELSE /\ cur_n' = cur_n + 1
                  /\ UNCHANGED <<breakdown_n, report, pc>>
    /\ UNCHANGED <<callVars, mp_dps, run_max_n, rec_a, a_ext, diag, cf_evals>>

\* pf = apart(G, x) ... count = count_mn_tilings(m, n): no such name
Table ==
    /\ pc = "table"
    /\ diag' = [error |-> "NameError", name |-> "count_mn_tilings"]
    /\ pc' = "NameError"
    /\ UNCHANGED <<callVars, mp_dps, run_max_n, cur_n, rec_a, a_ext,
                   breakdown_n, report, histVars>>

Next ==
    \/ Start
    \/ ValidateStep
    \/ ReportBreakdown
    \/ EnterExtension
    \/ ExtendStep
    \/ Table

Spec == Init /\ [][Next]_vars

Returned(f) == fn = f /\ ret.out # "pending"

IsInt(z) ==
    /\ DOMAIN z = {"neg", "mag"}
    /\ z.neg \in BOOLEAN
    /\ \A i \in 1..Len(z.mag) : z.mag[i] \in 0..(Base - 1)
    /\ z.mag # <<>> => z.mag[Len(z.mag)] # 0
    /\ z.neg => z.mag # <<>>

(***************************************************************************)
(* C1: for every N >= 0, tiling_recurrence(N) returns N + 1 exact integers *)
(* with a[0] = 1, a[1] = 2, a[2] = 7 and a[i] = 3 a[i-1] + a[i-2] - a[i-3] *)
(* for 3 <= i <= N; in particular a[3] = 22 and a[4] = 71.                 *)
(***************************************************************************)
C1_RecurrenceTerms ==
    (Returned("tiling_recurrence") /\ arg >= 0) =>
        /\ ret.out = "return"
        /\ Len(ret.val) = arg + 1
        /\ \A i \in 0..arg : IsInt(ret.val[i + 1])
        /\ ret.val[1] = ZOfInt(1)
        /\ arg >= 1 => ret.val[2] = ZOfInt(2)
        /\ arg >= 2 => ret.val[3] = ZOfInt(7)
        /\ \A i \in 3..arg :
              ret.val[i + 1] =
                  ZSub(ZAdd(ZScale(3, ret.val[i]), ret.val[i - 1]), ret.val[i - 2])
        /\ arg >= 3 => ret.val[4] = ZOfInt(22)
        /\ arg >= 4 => ret.val[5] = ZOfInt(71)

\* a call with N >= 19 has returned: its last term is past 2^31
C1_Witness ==
    /\ Returned("tiling_recurrence")
    /\ arg >= 19
    /\ Len(ret.val) = arg + 1
    /\ Len(ret.val[arg + 1].mag) >= 3

(***************************************************************************)
(* C2: for every negative N, tiling_recurrence(N) ends in an invalid-      *)
(* argument error and returns no value, not even an empty list.            *)
(***************************************************************************)
C2_NegativeRejected ==
    (Returned("tiling_recurrence") /\ arg < 0) => ret.out = "raise"

(***************************************************************************)
(* C3: for every N in [0, 20] the generating-function term G^(N)(0) / N!   *)
(* is an integer and equals the recurrence term, the two being computed    *)
(* independently: one by differentiating G, the other by the recurrence.   *)
(***************************************************************************)
C3_GfEqualsRecurrence ==
    Returned("tiling_gf_exact") =>
        /\ ret.out = "return"
        /\ ret.val.q = ZOfInt(1)
        /\ IsInt(ret.val.p)
        /\ ret.val.p = tiling_recurrence(arg).val[arg + 1]

\* the term of an index past 2^31 has been extracted
C3_Witness ==
    /\ Returned("tiling_gf_exact")
    /\ arg >= 19
    /\ Len(ret.val.p.mag) >= 3

C9_PrecisionRestored ==
    Returned("exact_closed") => mp_dps = arg[2]

(***************************************************************************)
(* C10: for every N in 0..100 the closed form evaluated by exact_closed    *)
(* from the roots and residues equals the recurrence term a_N exactly.     *)
(***************************************************************************)
C10_ClosedEqualsRecurrence ==
    Returned("exact_closed") =>
        ret.val = tiling_recurrence(arg[1]).val[arg[1] + 1]

\* the three methods give the same term at index i
Agree(i) ==
    /\ gf_vals[i + 1] = rec_a[i + 1]
    /\ exact_cf_vals[i + 1] = rec_a[i + 1]

PastValidation == pc \in {"report", "extend", "table", "NameError", "done"}

(***************************************************************************)
(* C4: whatever the comparisons give, the breakdown search reports the     *)
(* least index of 0..200 whose comparison came out wrong, every index      *)
(* below it having been compared and found right, and reports "not found"  *)
(* exactly when all of 0..200 were compared and none was wrong; the        *)
(* extension runs only when the first scan found nothing, so it replaces   *)
(* no index.                                                               *)
(***************************************************************************)
C4_BreakdownIsLeast ==
    /\ breakdown_n = first_wrong
    /\ report.kind = "found" =>
          /\ report.N = first_wrong
          /\ report.N \in 0..HORIZON
          /\ (0..report.N) \subseteq compared
    /\ report.kind = "not found" =>
          /\ first_wrong = None
          /\ compared = 0..HORIZON
    /\ pc = "extend" => breakdown_n = None /\ compared = 0..(cur_n - 1)
    /\ pc \in {"table", "NameError"} => report # NoReport

C4_Witness ==
    /\ report.kind = "found"
    /\ report.N > run_max_n
    /\ compared = 0..report.N

(***************************************************************************)
(* C5: the validation loop checks the indices 0..MAX_N in increasing       *)
(* order; at the first index where the generating-function term or the     *)
(* closed-form term differs from the recurrence term it stops with an      *)
(* AssertionError naming the index and the two values, nothing later is    *)
(* evaluated and no breakdown is reported; past the loop, all three agree  *)
(* on all of 0..MAX_N.                                                     *)
(***************************************************************************)
C5_ValidationAborts ==
    /\ pc = "validate" =>
          /\ compared = 0..(cur_n - 1)
          /\ \A i \in compared : Agree(i)
    /\ pc = "AssertionError" =>
          /\ diag.N = cur_n
          /\ compared = 0..cur_n
          /\ \A i \in 0..(cur_n - 1) : Agree(i)
          /\ ~Agree(cur_n)
          /\ diag.want = rec_a[cur_n + 1]
          /\ diag.got # diag.want
          /\ diag.got = IF diag.method = "GF" THEN gf_vals[cur_n + 1]
                        ELSE exact_cf_vals[cur_n + 1]
          /\ report = NoReport
    /\ PastValidation => \A i \in 0..run_max_n : Agree(i)
    /\ report # NoReport => PastValidation

C5_Witness ==
    /\ pc = "AssertionError"
    /\ diag.method = "Exact CF"
    /\ diag.N > 0

(***************************************************************************)
(* C6: a run of main ends either complete (range validated, breakdown      *)
(* reported, last statement reached) or with the index and the methods     *)
(* that disagreed; there is no other halt.                                 *)
(***************************************************************************)
C6_TwoOutcomes ==
    pc \in {"AssertionError", "NameError", "done"} =>
        \/ pc = "done" /\ report # NoReport
        \/ /\ pc = "AssertionError"
           /\ diag.N \in 0..run_max_n
           /\ diag.method \in {"GF", "Exact CF"}

====
